---- MODULE Spec2Model ----
(***************************************************************************)
(* Nonogram puzzle game: the seeded puzzle generator (generatePuzzle and   *)
(* its Random source), the win / line-completion evaluator, and the App    *)
(* component's game state machine.                                         *)
(*                                                                         *)
(* Numbers.  The source computes with IEEE doubles.  Here a draw of        *)
(* Random.next(), a density and targetDensity are the doubles of the       *)
(* source, written exactly; a density of a difficulty band is given in     *)
(* hundredths, as the literal of gameConfig.ts has it.                     *)
(* Grids are functions over 0 .. size-1, indexed grid[y][x] as in the      *)
(* source.                                                                 *)
(***************************************************************************)
EXTENDS Integers, Sequences, FiniteSets, TLC

VARIABLES
  calls,               \* the calls made by the harnesses of the generator and the evaluator
  puzzle,              \* App state: PuzzleData | null
  playerGrid,          \* App state: CellState[][]
  gameState,           \* App state: [status], idle | loading | playing | won | error
  isDebugVisible,      \* App state
  isCheckHintsActive,  \* App state
  winCorner,           \* App state: 0 .. 3, or -1 for null
  activeTool,          \* App state: FILL | CROSS
  inputSeed,           \* App state: the text of the seed box, a sequence of char codes
  selectedSize,        \* App state
  selectedDifficulty,  \* App state
  isMobile,            \* App state
  isDragging,          \* App ref
  dragTargetState,     \* App ref: a CellState, or "null"
  updates,             \* the state updates queued and not yet rendered, oldest first
  baseState,           \* the value of each state before its first update still queued
  effectPending,       \* the win-condition effect of the last commit has yet to run
  legacyRoot,          \* App is rendered by a root of React before 18
  pendingGames,        \* the startNewGame calls suspended in generatePuzzle, oldest first
  events,              \* the number of user events App has handled
  verdict              \* the evaluator's answers

stateVars == <<puzzle, playerGrid, gameState, isDebugVisible, isCheckHintsActive,
               winCorner, activeTool, inputSeed, selectedSize,
               selectedDifficulty, isMobile>>
dragVars == <<isDragging, dragTargetState>>
appVars == <<stateVars, dragVars, updates, baseState, effectPending, legacyRoot,
             pendingGames, events>>

vars == <<calls, appVars, verdict>>

evalVars == <<appVars, verdict>>

\* null, as a record so that it compares with a PuzzleData
Null == [null |-> TRUE]

(***************************************************************************)
(* Bounds of the model.                                                    *)
(***************************************************************************)
\* seeds given to the generator harness are 0 .. MaxSeed
MaxSeed == 15
\* grid sizes given to the generator harness are 1 .. MaxSize
MaxSize == 4
\* number of generatePuzzle calls that may be pending at the same time
MaxCalls == 2
\* seeds and sizes of the overlapping calls
MaxConcSeed == 1
MaxConcSize == 2
\* seeds and sizes of the two calls compared with each other
MaxPairSeed == 2
MaxPairSize == 4
\* grid sizes given to the evaluator harness are 1 .. MaxEvalSize
MaxEvalSize == 2
\* the size selector of the App model offers the sizes up to MaxGridSize
MaxGridSize == 10
\* startNewGame calls that may be pending at the same time
MaxPending == 2
\* seeds the Math.random() of startNewGame may give are 0 .. MaxRandomSeed
MaxRandomSeed == 1
\* user events App handles
MaxEvents == 4
\* the longest text typed into the seed box by the seed harness
MaxTextLen == 10
\* the seeds of the large-seed harness are 2^53 + 2 * k for k up to
MaxLargeSeed == 2

(***************************************************************************)
(* class Random                                                            *)
(***************************************************************************)
(***************************************************************************)
(* The numbers of the generator are doubles in [0, 2].  A double is        *)
(* written as the natural number of its 2^-117 units, and a natural        *)
(* number as the sequence of its digits in base 8192, the least            *)
(* significant first and the most significant not 0 (<<>> is 0).  Sums,    *)
(* differences and products are exact on natural numbers; an operation on  *)
(* doubles gives the exact result rounded to 53 significant bits, to the   *)
(* nearest, a tie to the even one.                                         *)
(***************************************************************************)
Limb == 8192

\* 1.0 is 8192^UnitLimbs units
UnitLimbs == 9

\* a without its most significant digits that are 0
RECURSIVE BigTrim(_)
BigTrim(a) ==
  IF a = <<>> \/ a[Len(a)] /= 0 THEN a
  ELSE BigTrim(SubSeq(a, 1, Len(a) - 1))

\* digit i of a, the least significant being digit 1
BigDigit(a, i) == IF i <= Len(a) THEN a[i] ELSE 0

RECURSIVE BigAddFrom(_, _, _, _)
BigAddFrom(a, b, i, carry) ==
  IF i > Len(a) /\ i > Len(b) THEN (IF carry = 0 THEN <<>> ELSE <<carry>>)
  ELSE LET sum == BigDigit(a, i) + BigDigit(b, i) + carry
       IN  <<sum % Limb>> \o BigAddFrom(a, b, i + 1, sum \div Limb)

\* a + b
BigAdd(a, b) == BigAddFrom(a, b, 1, 0)

RECURSIVE BigSubFrom(_, _, _, _)
BigSubFrom(a, b, i, borrow) ==
  IF i > Len(a) THEN <<>>
  ELSE LET diff == a[i] - BigDigit(b, i) - borrow
       IN  <<(diff + Limb) % Limb>>
             \o BigSubFrom(a, b, i + 1, IF diff < 0 THEN 1 ELSE 0)

\* a - b, for a >= b
BigSub(a, b) == BigTrim(BigSubFrom(a, b, 1, 0))

RECURSIVE BigLessFrom(_, _, _)
BigLessFrom(a, b, i) ==
  IF i = 0 THEN FALSE
  ELSE IF a[i] /= b[i] THEN a[i] < b[i]
  ELSE BigLessFrom(a, b, i - 1)

\* a < b
BigLess(a, b) ==
  IF Len(a) /= Len(b) THEN Len(a) < Len(b) ELSE BigLessFrom(a, b, Len(a))

\* a * d for a digit d, from digit i of a on
RECURSIVE BigTimesDigit(_, _, _, _)
BigTimesDigit(a, d, i, carry) ==
  IF i > Len(a) THEN (IF carry = 0 THEN <<>> ELSE <<carry>>)
  ELSE LET prod == a[i] * d + carry
       IN  <<prod % Limb>> \o BigTimesDigit(a, d, i + 1, prod \div Limb)

RECURSIVE BigMulFrom(_, _, _)
BigMulFrom(a, b, j) ==
  IF j > Len(b) THEN <<>>
  ELSE BigAdd(BigTimesDigit(a, b[j], 1, 0), <<0>> \o BigMulFrom(a, b, j + 1))

\* a * b
BigMul(a, b) == BigTrim(BigMulFrom(a, b, 1))

\* floor(a / d) and a mod d for a number d below 2^18, from digit i of a down
RECURSIVE BigDivFrom(_, _, _, _)
BigDivFrom(a, d, i, rem) ==
  IF i = 0 THEN [quot |-> <<>>, rem |-> rem]
  ELSE LET cur == rem * Limb + a[i]
           rest == BigDivFrom(a, d, i - 1, cur % d)
       IN  [quot |-> rest.quot \o <<cur \div d>>, rem |-> rest.rem]

\* the number of bits of a digit
RECURSIVE BitLen(_)
BitLen(d) == IF d = 0 THEN 0 ELSE 1 + BitLen(d \div 2)

\* the number of bits of a
BigBits(a) == IF a = <<>> THEN 0 ELSE 13 * (Len(a) - 1) + BitLen(a[Len(a)])

\* bit k of a, bit 0 being the least significant
BigBit(a, k) == (BigDigit(a, k \div 13 + 1) \div (2 ^ (k % 13))) % 2

\* 2^k
BigPow2(k) ==
  [i \in 1 .. k \div 13 + 1 |-> IF i = k \div 13 + 1 THEN 2 ^ (k % 13) ELSE 0]

\* a with its bits below bit k cleared
BigFloor(a, k) ==
  BigTrim([i \in 1 .. Len(a) |->
             IF i < k \div 13 + 1 THEN 0
             ELSE IF i = k \div 13 + 1 THEN a[i] - (a[i] % (2 ^ (k % 13)))
             ELSE a[i]])

\* some bit of a below bit k is set
BigLow(a, k) ==
  \E i \in 1 .. Len(a) :
    \/ i < k \div 13 + 1 /\ a[i] /= 0
    \/ i = k \div 13 + 1 /\ a[i] % (2 ^ (k % 13)) /= 0

\* the rounding of an operation on doubles: a to 53 significant bits, to
\* the nearest, a tie to the one whose last bit is 0
Round53(a) ==
  LET drop == BigBits(a) - 53
  IN  IF drop <= 0 THEN a
      ELSE IF BigBit(a, drop - 1) = 1 /\ (BigLow(a, drop - 1) \/ BigBit(a, drop) = 1)
           THEN BigAdd(BigFloor(a, drop), BigPow2(drop))
      ELSE BigFloor(a, drop)

\* 1.0
One == [i \in 1 .. UnitLimbs + 1 |-> IF i = UnitLimbs + 1 THEN 1 ELSE 0]

\* the double a literal of p hundredths denotes (0.3 for p = 30): p / 100
\* rounded; a quotient that is not exact has its last bit set, which is
\* below the bits the rounding keeps
Percent(p) ==
  LET n == BigTimesDigit(One, p, 1, 0)
      d == BigDivFrom(n, 100, Len(n), 0)
      q == IF d.rem = 0 THEN d.quot
           ELSE [d.quot EXCEPT ![1] = d.quot[1] + (1 - (d.quot[1] % 2))]
  IN  IF p = 0 THEN <<>> ELSE Round53(BigTrim(q))

\* a + b on doubles
DoubleAdd(a, b) == Round53(BigAdd(a, b))

\* a - b on doubles, for a >= b
DoubleSub(a, b) == Round53(BigSub(a, b))

\* a * b on doubles: the product has 8192^(2 * UnitLimbs) units in 1.0
DoubleMul(a, b) ==
  LET prod == Round53(BigMul(a, b))
  IN  SubSeq(prod, UnitLimbs + 1, Len(prod))

(***************************************************************************)
(* gameConfig.ts                                                           *)
(***************************************************************************)
\* the densities are the doubles their literals denote: 0.90 is Percent(90)
DIFFICULTY_CONFIG ==
  [VERY_EASY |-> [minDensity |-> Percent(90), maxDensity |-> Percent(99)],
   EASY      |-> [minDensity |-> Percent(70), maxDensity |-> Percent(90)],
   MEDIUM    |-> [minDensity |-> Percent(50), maxDensity |-> Percent(70)],
   HARD      |-> [minDensity |-> Percent(30), maxDensity |-> Percent(50)],
   VERY_HARD |-> [minDensity |-> Percent(10), maxDensity |-> Percent(30)]]

DifficultyLevels == DOMAIN DIFFICULTY_CONFIG

\* the double of entry n of a table below: an entry is a multiple k of 2^-52,
\* written as the two numbers k \div 2^26 and k % 2^26
DoubleOfTable(table, n) ==
  LET high == table[2 * n + 1]
      low == table[2 * n + 2]
  IN  BigTrim(<<0, 0, 0, 0, 0,
                low % Limb, low \div Limb, high % Limb, high \div Limb>>)

\* entry n of SinTable is x - Math.floor(x) for x = Math.sin(n) * 10000, for
\* n = 0 .. 255, Math.sin being computed as V8 computes it; every value is
\* a multiple of 2^-52
SinTable == <<
           0,        0,  47637098, 12877824,  65382035, 63504384,  13427181, 45991936,
    65434291, 13160448,  50818413, 22011904,  56708198, 51030016,  58115416, 28045312,
    39088647, 18112512,  12405235, 50364416,  52941585, 64667648,   6572272, 38207488,
    18174422, 17219584,  44987652, 55054336,   4936323, 17907712,  58948531, 38715392,
    64883087, 50464768,   1683171,  9207808,   8558546, 43716608,  51814527, 47348736,
    30367249, 17629184,  37338389, 33112064,  32675782,  5603456,  53415853, 56000512,
    14521011, 36716544,  32379961, 17825792,  39225452, 57982976,  50954689, 48005120,
     3884467, 44005376,  44369553, 40411136,  45886294, 35577856,  41845515, 22947840,
    17905478, 13398016,   7959183, 17195008,  55489715, 55947264,  11630304, 17350656,
    14191214,  6717440,  41518001, 20975616,  46022392, 54650880,  64012651, 44498944,
     8831848, 12615680,  51896086, 45460480,  52648302, 40435712,  16949935,  1605632,
     1291916, 25088896,   2365274, 54239232,  59289103, 32653312,  49071843, 43315200,
    30426270, 42938368,  31774195, 17031168,  16875393, 42377216,  19579577,  3436544,
    18516704, 62013440,  16878001, 21665792,   7349191, 18472960,  30082649, 53657600,
    32881942, 57524224,  43456511, 13131776,  48753304, 16818176,  25506159, 21094400,
    59981162, 64296960,  55183613, 15753216,  12954259, 28213248,  37379840, 30754816,
    17473938,  4849664,  19246480,   630784,  32779979, 41982976,  53701200, 41771008,
    48532667, 58335232,  10191297, 39435264,  60855363, 23949312,  36677178, 10059776,
    15678484, 13527040,  18819414, 24031232,  36063989, 18661376,  12324268,  7346176,
     5125035, 41181184,  13528194, 35389440,  52650921, 65421312,  58607038, 20647936,
     7614223,  8822784,   8056906,  1945600,  19315563, 58720256,  43259112,  3776512,
    60612775, 10092544,  16361175, 36629504,  27885743, 35799040,  55138903, 45572096,
    65969847, 56413696,  46577452, 19283968,  64869844, 15826944,  58728142,  4554752,
    22770295, 25792512,  11984790, 57933824,  32222007, 14233600,  41416058, 22237184,
    58884964, 13467648,   5193573, 30498816,  12165501, 19664896,  62522519, 11706368,
    23057860, 62001152,  17305482, 30113792,  17979376, 18563072,  59479554,  7188480,
    52074356,  8417280,  43430482, 54689792,  38587542, 36290560,  54857846,  3067904,
    12418775, 43884544,  28592829, 41668608,  38468085, 62540288,  32582285, 58851328,
     2949859, 32464896,  12142749, 34787328,  53947930, 54497280,  23712262, 42196992,
    41200389, 23068672,   1381814, 58347520,  32098811, 10461184,  64356435, 32882688,
     7505597, 55799808,  10217139,  2777088,   8827430, 29650944,  64766301, 58355712,
     8732950, 56557568,  39957162,  7315456,  60952077, 60092416,  20177784, 54771712,
    25307089, 21528576,  17856300, 48141312,  63115761, 17334272,  64835795,  2560000,
    56094384, 11388928,  44128248, 25698304,  16654044, 23912448,  46094464,  8135168,
    44824209, 33402880,  57408574, 10846208,  32038106, 42948608,  53775154, 42504192,
    26614999, 57835520,  47892491, 19023872,   3350633, 15765504,  36667696, 54575104,
    52617444,  2949120,  30307735, 30076928,  46421296, 14475264,  29542585, 52944896,
    44698312, 22652928,  34461680, 28655616,  15817808,  7262208,  33474851, 26324992,
    13773254, 47751168,    389751, 55783424,  53460762, 32961536,  59067360,  3915776,
    10322138, 44974080,  34532292, 14834688,  16170905, 56279040,  13241728, 36339712,
    16950611, 14419968,  61884051, 31571968,  33319018, 36773888,  60279970,  4126720,
    21996959,  1134592,  65283133, 48791552,  61447377, 58318848,  33429024, 26279936,
    17925600, 18489344,     88800,  3784704,  33189022, 16279552,  60980444, 44769280,
    39688304, 35184640,  60040345, 27957248,  25518648,  2572288,  43892433,  1212416,
    35055040,  7903744,  60255557, 15646720,  50557002, 28860416,  14876182, 17930752,
    31785620, 64983040,  32614828, 64053248,  12706459, 19468288,  53961055, 60071936,
    56628667, 50143232,  14213720, 44476416,  51044642, 38924288,  19445872, 23789568,
    51224858, 59568128,  12048502, 41345024,  66624794, 49995776,   5736775, 23699456,
    41367479, 39520256,  29142277, 52854784,   9174272, 41299968,  36687069, 52860928,
    20169951, 36880384,   3921116, 67080192,  14366890, 60440576,    781101, 56696832,
     1813808, 66068480,   6542631, 61383168,  12352638, 37367808,   6509671, 57253888,
    13662903, 35728384,   1672508, 49770496,  38988152, 37371904,  63734938, 24338432,
    45587179, 35811328,  44722532, 12386304,  12427449, 30679040,  34994688, 38522880,
    35504751, 65232896,  19716705,  9805824,  66740688, 60936192,  30616377, 15204352,
    39250863, 56537088,  12341713, 44587008,  50648851, 58277888,  57216015, 26124288,
    66244829,   571904,  26036815, 46317568,  34116949, 31531008,  35893357,  4087296,
    53017770, 60112896,   3437312, 65576960,  37703666, 23671808,  39323828, 29413376,
    15476972,  7561216,  41855618, 59838464,  24022253,  9740288,  10610073, 49160192,
    15620774, 32546816,  26361571, 63135744,  11201276, 39763968,  58143783, 60997632,
    45574007, 28000256,  28273110, 45867008,  16030173, 24727552,  60855173, 37896192,
    30302954, 40370176,  41415078, 49086464,  59117863, 52953088,  60834952, 50692096,
    42748786, 28164096,  58677824,  2139904,  40265065, 18194432,   4822109, 15220736,
    34976617, 41647104,  24700461, 56684544,  48305267, 53444608,   4120287, 63995904,
     8194665, 56004608,  15924041, 39968768,  66369366, 39337984,   5613707,  9859072 >>

\* A seed, and the counter of a Random, is a JavaScript number.  Its values
\* here are non-negative integers a double holds exactly, written
\* <<top, mid, low>> for top * 2^32 + mid * 2^16 + low with mid, low < 2^16:
\* the number n, 0 <= n < 2^31
Num(n) == <<0, n \div 65536, n % 65536>>

\* the value of a seed below 2^31
NumValue(num) == num[2] * 65536 + num[3]

\* num + 1, exactly
NumInc(num) ==
  LET low == num[3] + 1
      mid == num[2] + low \div 65536
  IN  <<num[1] + mid \div 65536, mid % 65536, low % 65536>>

\* num + 1 as the double addition of this.seed++ computes it: exact up to
\* 2^53; from 2^53 to below 2^54 the doubles are the even integers and
\* num + 1 lies half way between two of them, so it rounds to the one with the
\* even significand, num or num + 2; from 2^54 on it rounds back to num
NumSucc(num) ==
  IF num[1] < 2097152 THEN NumInc(num)
  ELSE IF num[1] < 4194304 /\ num[3] % 4 = 2 THEN NumInc(NumInc(num))
  ELSE num

\* acc * 10 + digit
NumTimesTenPlus(acc, digit) ==
  LET low == acc[3] * 10 + digit
      mid == acc[2] * 10 + low \div 65536
      top == acc[1] * 10 + mid \div 65536
  IN  <<top, mid % 65536, low % 65536>>

\* The double nearest to the integer num < 2^63, ties going to the even
\* significand: below 2^53 num itself; from there on a double keeps the 53
\* leading bits, so the last shift bits of the low limb are rounded away.
NumRound(num) ==
  LET shift == Cardinality({k \in 21 .. 30 : num[1] >= 2 ^ k})
      unit == 2 ^ shift
      q == num[3] \div unit
      rem == num[3] % unit
      up == IF 2 * rem > unit \/ (2 * rem = unit /\ q % 2 = 1) THEN 1 ELSE 0
      low == (q + up) * unit
      mid == num[2] + low \div 65536
  IN  <<num[1] + mid \div 65536, mid % 65536, low % 65536>>

\* entry k of SinTableBig is the same for the counter 2^53 + 2 * k, k = 0 .. 8
SinTableBig == <<
    49684171, 56729600,   2314656, 11798528,  49713394, 13918208,
    40866992, 55422976,  20981072, 55160832,  20921486, 33185792,
    10451722, 48340992,  48696806, 10473472,  28382973, 42663936 >>

\* x - Math.floor(x) for x = Math.sin(counter) * 10000, for the counters the
\* two tables hold: 0 .. 255, and the even numbers from 2^53 (top limb 2^21)
\* to 2^53 + 16
SinDraw(num) ==
  CASE num[1] = 0 /\ num[2] = 0 ->
         DoubleOfTable(SinTable, num[3])
    [] num[1] = 2097152 /\ num[2] = 0 /\ num[3] % 2 = 0 ->
         DoubleOfTable(SinTableBig, num[3] \div 2)

\* a counter that is module-level state, carried from one call into the next
RandomLeaking(seed) ==
  Num(NumValue(seed) + Cardinality({i \in DOMAIN calls : calls[i].st = "done"}))

\* the constructor: the object is its counter, this.seed
Random(seed) == seed

\* next(): the draw made from the counter, and the counter advanced by one
RandomNext(rng) == [value |-> SinDraw(rng), rng |-> NumSucc(rng)]

\* bool(chance): next() < chance
RandomBool(rng, chance) ==
  LET n == RandomNext(rng)
  IN  [value |-> BigLess(n.value, chance), rng |-> n.rng]

(***************************************************************************)
(* generatePuzzle                                                          *)
(***************************************************************************)
\* Array(size).fill(0).map(() => Array(size).fill(0))
ZeroGrid(size) == [y \in 0 .. size - 1 |-> [x \in 0 .. size - 1 |-> 0]]

\* minDensity + (next * (maxDensity - minDensity)), each operation rounded;
\* with maxDensity below minDensity the difference and the product are
\* negative, and their magnitudes are those of the operands exchanged
TargetDensity(difficulty, next) ==
  LET minDensity == difficulty.minDensity
      maxDensity == difficulty.maxDensity
  IN  IF BigLess(maxDensity, minDensity)
      THEN DoubleSub(minDensity, DoubleMul(next, DoubleSub(minDensity, maxDensity)))
      ELSE DoubleAdd(minDensity, DoubleMul(next, DoubleSub(maxDensity, minDensity)))

\* 1. the inner noise loop, over the columns x of row y: one bool() draw
\* per cell
RECURSIVE NoiseRow(_, _, _, _, _, _)
NoiseRow(grid, rng, y, x, size, targetDensity) ==
  IF x >= size THEN [grid |-> grid, rng |-> rng]
  ELSE LET b == RandomBool(rng, targetDensity)
           val == IF b.value THEN 1 ELSE 0
       IN  NoiseRow([grid EXCEPT ![y][x] = val], b.rng, y, x + 1, size,
                    targetDensity)

\* 1. the noise loops: rows outer, columns inner, from cell (y, x) on
RECURSIVE NoiseLoop(_, _, _, _, _, _)
NoiseLoop(grid, rng, y, x, size, targetDensity) ==
  IF y >= size THEN [grid |-> grid, rng |-> rng]
  ELSE LET row == NoiseRow(grid, rng, y, x, size, targetDensity)
       IN  IF row = row
           THEN NoiseLoop(row.grid, row.rng, y + 1, 0, size, targetDensity)
           ELSE row

\* the literals 0.3 and 0.8 of the smoothing condition
SmoothingAbove == Percent(30)

SmoothingBelow == Percent(80)

\* the bounds of the smoothing condition taken inclusive
SmoothingAppliesInclusive(targetDensity) ==
  ~BigLess(targetDensity, SmoothingAbove) /\ ~BigLess(SmoothingBelow, targetDensity)

\* the smoothing condition: targetDensity > 0.3 && targetDensity < 0.8
SmoothingApplies(targetDensity) ==
  BigLess(SmoothingAbove, targetDensity) /\ BigLess(targetDensity, SmoothingBelow)

\* the dy, dx loops: the filled in-bounds neighbours of (y, x) counted from
\* offset (dy, dx) on
RECURSIVE CountNeighbors(_, _, _, _, _, _)
CountNeighbors(grid, size, y, x, dy, dx) ==
  IF dy > 1 THEN 0
  ELSE IF dx > 1 THEN CountNeighbors(grid, size, y, x, dy + 1, -1)
  ELSE LET ny == y + dy
           nx == x + dx
           hit == /\ ~(dy = 0 /\ dx = 0)
                  /\ ny >= 0 /\ ny < size /\ nx >= 0 /\ nx < size
                  /\ grid[ny][nx] = 1
       IN  (IF hit THEN 1 ELSE 0) + CountNeighbors(grid, size, y, x, dy, dx + 1)

\* the standard smoothing rules
SmoothRule(cell, neighbors) ==
  IF cell = 1 THEN (IF neighbors >= 3 THEN 1 ELSE 0)
              ELSE (IF neighbors >= 4 THEN 1 ELSE 0)

\* the x loop of one iteration, over the columns of row y; `inPlace` is
\* FALSE in the source, where every read is of grid and every write is to
\* newGrid
RECURSIVE SmoothRow(_, _, _, _, _, _)
SmoothRow(grid, newGrid, y, x, size, inPlace) ==
  IF x >= size THEN newGrid
  ELSE LET from == IF inPlace THEN newGrid ELSE grid
           neighbors == CountNeighbors(from, size, y, x, -1, -1)
       IN  SmoothRow(grid,
                     [newGrid EXCEPT ![y][x] = SmoothRule(from[y][x], neighbors)],
                     y, x + 1, size, inPlace)

\* the y, x loops of one iteration, from cell (y, x) on
RECURSIVE SmoothLoop(_, _, _, _, _, _)
SmoothLoop(grid, newGrid, y, x, size, inPlace) ==
  IF y >= size THEN newGrid
  ELSE LET row == SmoothRow(grid, newGrid, y, x, size, inPlace)
       IN  IF row = row THEN SmoothLoop(grid, row, y + 1, 0, size, inPlace)
           ELSE row

\* an iteration that updates grid itself: later cells read earlier writes
SmoothIterationInPlace(grid, size) == SmoothLoop(grid, grid, 0, 0, size, TRUE)

\* one iteration: newGrid starts as a copy of grid, and grid is then
\* overwritten cell by cell with newGrid
SmoothIteration(grid, size) == SmoothLoop(grid, grid, 0, 0, size, FALSE)

iterations == 2

\* for (let i = 0; i < iterations; i++)
RECURSIVE SmoothIterations(_, _, _)
SmoothIterations(grid, size, i) ==
  IF i >= iterations THEN grid
  ELSE SmoothIterations(SmoothIteration(grid, size), size, i + 1)

\* 2. cellular automata smoothing
SmoothPass(grid, size, targetDensity) ==
  IF SmoothingApplies(targetDensity) THEN SmoothIterations(grid, size, 0)
  ELSE grid

\* grid.forEach(row => row.forEach(cell => filledCount += cell))
RECURSIVE FilledCountRow(_, _, _, _)
FilledCountRow(grid, size, y, x) ==
  IF x >= size THEN 0
  ELSE grid[y][x] + FilledCountRow(grid, size, y, x + 1)

RECURSIVE FilledCountFrom(_, _, _, _)
FilledCountFrom(grid, size, y, x) ==
  IF y >= size THEN 0
  ELSE FilledCountRow(grid, size, y, x) + FilledCountFrom(grid, size, y + 1, 0)

FilledCount(grid, size) == FilledCountFrom(grid, size, 0, 0)

\* a safety check without the all-filled test
SafetyCheckFillOnly(grid, size) ==
  IF FilledCount(grid, size) = 0
  THEN [grid EXCEPT ![size \div 2][size \div 2] = 1]
  ELSE grid

\* a safety check that counts again before its second test
SafetyCheckRecount(grid, size) ==
  LET g1 == SafetyCheckFillOnly(grid, size)
  IN  IF FilledCount(g1, size) = size * size
      THEN [g1 EXCEPT ![0][0] = 0]
      ELSE g1

\* a safety check without the no-cell-filled test
SafetyCheckClearOnly(grid, size) ==
  IF FilledCount(grid, size) = size * size
  THEN [grid EXCEPT ![0][0] = 0]
  ELSE grid

\* 3. the safety check: both tests read the count taken before either write
SafetyCheck(grid, size) ==
  LET filledCount == FilledCount(grid, size)
      g1 == IF filledCount = 0
            THEN [grid EXCEPT ![size \div 2][size \div 2] = 1]
            ELSE grid
  IN  IF filledCount = size * size THEN [g1 EXCEPT ![0][0] = 0] ELSE g1

\* num \div 10
NumDivTen(num) ==
  LET t1 == (num[1] % 10) * 65536 + num[2]
      t2 == (t1 % 10) * 65536 + num[3]
  IN  <<num[1] \div 10, t1 \div 10, t2 \div 10>>

\* num % 10
NumModTen(num) ==
  ((((num[1] % 10) * 65536 + num[2]) % 10) * 65536 + num[3]) % 10

\* the decimal digits of the integer num (char codes), most significant
\* first; digits is the text written so far
RECURSIVE NumDigits(_, _)
NumDigits(num, digits) ==
  LET text == <<48 + NumModTen(num)>> \o digits
  IN  IF NumDivTen(num) = <<0, 0, 0>> THEN text
      ELSE NumDigits(NumDivTen(num), text)

\* num * 10^j
RECURSIVE NumShift(_, _)
NumShift(num, j) ==
  IF j = 0 \/ num = <<0, 0, 0>> THEN num
  ELSE NumShift(NumTimesTenPlus(num, 0), j - 1)

\* num \div 10^j
RECURSIVE NumPrefix(_, _)
NumPrefix(num, j) ==
  IF j = 0 \/ num = <<0, 0, 0>> THEN num
  ELSE NumPrefix(NumDivTen(num), j - 1)

\* a + b
NumAdd(a, b) ==
  LET low == a[3] + b[3]
      mid == a[2] + b[2] + low \div 65536
  IN  <<a[1] + b[1] + mid \div 65536, mid % 65536, low % 65536>>

\* a < b
NumLess(a, b) ==
  \/ a[1] < b[1]
  \/ a[1] = b[1] /\ a[2] < b[2]
  \/ a[1] = b[1] /\ a[2] = b[2] /\ a[3] < b[3]

\* the multiples of 10^j next to num, the one not above it and the one above
NumCandidates(num, j) ==
  <<NumShift(NumPrefix(num, j), j), NumShift(NumInc(NumPrefix(num, j)), j)>>

\* the decimal cand reads back as the double num
NumReadsBack(cand, num) == NumRound(cand) = num

\* The integer whose digits Number::toString writes for the double num, an
\* integer of at most 19 digits: of the decimals that read back as num the
\* one with the fewest significant digits, that is the most trailing zeros,
\* and of two such the one nearer to num.  Below 2^54 it is num itself.
NumShortest(num) ==
  LET levels == {j \in 0 .. 18 :
                   \/ NumReadsBack(NumCandidates(num, j)[1], num)
                   \/ NumReadsBack(NumCandidates(num, j)[2], num)}
      zeros == CHOOSE j \in levels : \A k \in levels : k <= j
      cand == NumCandidates(num, zeros)
  IN  IF ~NumReadsBack(cand[2], num) THEN cand[1]
      ELSE IF ~NumReadsBack(cand[1], num) THEN cand[2]
      ELSE IF NumLess(NumAdd(num, num), NumAdd(cand[1], cand[2])) THEN cand[1]
      ELSE cand[2]

\* `${seed}`: the text String(num) writes for a number below 10^21, its
\* shortest decimal, as char codes
NumToString(num) == NumDigits(NumShortest(num), <<>>)

\* a title that is the same for every seed
TitleWithoutSeed(seed) == <<80, 97, 116, 116, 101, 114, 110>>

\* `Pattern #${seed}`, as char codes
Title(seed) ==
  <<80, 97, 116, 116, 101, 114, 110, 32, 35>> \o NumToString(seed)

\* the body of generatePuzzle after the await, with the values its locals
\* took: targetDensity, grid after step 1 (noise), after step 2 (smoothed),
\* after step 3 (grid), and the counter of rng at the return
GenerateRun(seed, size, difficulty) ==
  LET rng0 == Random(seed)
      d == RandomNext(rng0)
      targetDensity == TargetDensity(difficulty, d.value)
      n == NoiseLoop(ZeroGrid(size), d.rng, 0, 0, size, targetDensity)
      smoothed == SmoothPass(n.grid, size, targetDensity)
  IN  [targetDensity |-> targetDensity,
       noise |-> n.grid,
       smoothed |-> smoothed,
       grid |-> SafetyCheck(smoothed, size),
       rng0 |-> rng0,
       rng |-> n.rng]

\* the PuzzleData returned
PuzzleData(seed, size, grid) ==
  [title |-> Title(seed), grid |-> grid, size |-> size, seed |-> seed]

GeneratePuzzle(seed, size, difficulty) ==
  PuzzleData(seed, size, GenerateRun(seed, size, difficulty).grid)

(***************************************************************************)
(* App: the evaluator (the win-condition effect, isRowComplete,            *)
(* isColComplete) and the helpers of the player grid.                      *)
(***************************************************************************)
CellState == {"EMPTY", "FILLED", "CROSSED"}

\* createEmptyGrid
CreateEmptyGrid(size) ==
  [r \in 0 .. size - 1 |-> [c \in 0 .. size - 1 |-> "EMPTY"]]

\* a win loop without the test of the cells that must stay unfilled
WinMismatchFillOnly(target, current) == target = 1 /\ current /= "FILLED"

\* lines 212-219, the two tests of the win loop
WinMismatch(target, current) ==
  \/ target = 1 /\ current /= "FILLED"
  \/ target = 0 /\ current = "FILLED"

\* lines 208-220: the column loop of row r; a failed test sets isWin to
\* false and breaks out of this loop
RECURSIVE WinRow(_, _, _, _, _)
WinRow(pz, grid, r, c, isWin) ==
  IF c >= pz.size THEN isWin
  ELSE IF WinMismatch(pz.grid[r][c], grid[r][c]) THEN FALSE
  ELSE WinRow(pz, grid, r, c + 1, isWin)

\* lines 207-221: the row loop goes on with the next row after a break
RECURSIVE WinLoop(_, _, _, _, _)
WinLoop(pz, grid, r, c, isWin) ==
  IF r >= pz.size THEN isWin
  ELSE IF WinRow(pz, grid, r, c, isWin)
       THEN WinLoop(pz, grid, r + 1, 0, TRUE)
       ELSE WinLoop(pz, grid, r + 1, 0, FALSE)

\* lines 206-221: let isWin = true, then the loops
IsWin(pz, grid) == WinLoop(pz, grid, 0, 0, TRUE)

\* a row test that takes a CROSSED cell for a wrong one
RowMismatchStrict(target, current) ==
  \/ target = 1 /\ current /= "FILLED"
  \/ target = 0 /\ current /= "EMPTY"

\* lines 304-305, the two tests of isRowComplete
RowMismatch(target, current) ==
  \/ target = 1 /\ current /= "FILLED"
  \/ target = 0 /\ current = "FILLED"

RECURSIVE RowLoop(_, _, _, _)
RowLoop(pz, grid, rowIndex, c) ==
  IF c >= pz.size THEN TRUE
  ELSE IF RowMismatch(pz.grid[rowIndex][c], grid[rowIndex][c]) THEN FALSE
  ELSE RowLoop(pz, grid, rowIndex, c + 1)

\* isRowComplete
IsRowComplete(pz, grid, rowIndex) ==
  IF pz = Null \/ DOMAIN grid = {} THEN FALSE
  ELSE RowLoop(pz, grid, rowIndex, 0)

\* a column test that takes a CROSSED cell for a wrong one
ColMismatchStrict(target, current) ==
  \/ target = 1 /\ current /= "FILLED"
  \/ target = 0 /\ current /= "EMPTY"

\* lines 315-316, the two tests of isColComplete
ColMismatch(target, current) ==
  \/ target = 1 /\ current /= "FILLED"
  \/ target = 0 /\ current = "FILLED"

RECURSIVE ColLoop(_, _, _, _)
ColLoop(pz, grid, colIndex, r) ==
  IF r >= pz.size THEN TRUE
  ELSE IF ColMismatch(pz.grid[r][colIndex], grid[r][colIndex]) THEN FALSE
  ELSE ColLoop(pz, grid, colIndex, r + 1)

\* isColComplete
IsColComplete(pz, grid, colIndex) ==
  IF pz = Null \/ DOMAIN grid = {} THEN FALSE
  ELSE ColLoop(pz, grid, colIndex, 0)

\* the three queries asked of one puzzle and one player grid
Evaluate(pz, grid) ==
  [isWin |-> IsWin(pz, grid),
   rows |-> [r \in 0 .. pz.size - 1 |-> IsRowComplete(pz, grid, r)],
   cols |-> [c \in 0 .. pz.size - 1 |-> IsColComplete(pz, grid, c)]]

\* line 235, [...row]: the copy of a row has every index below its length,
\* and one the row lacks (a hole) holds undefined
CopyRow(row) ==
  IF DOMAIN row = 0 .. Cardinality(DOMAIN row) - 1 THEN row
  ELSE LET last == CHOOSE m \in DOMAIN row : \A x \in DOMAIN row : x <= m
       IN  [x \in 0 .. last |-> IF x \in DOMAIN row THEN row[x] ELSE "undefined"]

\* lines 233-238, the state update of updateCell: prev => ...; a write past
\* the end of row r leaves holes between
UpdateCellGrid(prev, r, c, newState) ==
  IF c \in DOMAIN prev[r] /\ prev[r][c] = newState THEN prev
  ELSE LET newGrid == [x \in DOMAIN prev |-> CopyRow(prev[x])]
       IN  [newGrid EXCEPT ![r] = [x \in DOMAIN newGrid[r] \cup {c} |->
                                    IF x = c THEN newState ELSE newGrid[r][x]]]

NoVerdict == [isWin |-> FALSE, rows |-> <<>>, cols |-> <<>>]

\* line 32 of gameConfig.ts
GRID_SIZES == <<5, 10, 15, 20, 25>>

\* line 370: the sizes the size selector offers, up to MaxGridSize
GridSizes == {GRID_SIZES[i] : i \in {k \in DOMAIN GRID_SIZES : GRID_SIZES[k] <= MaxGridSize}}

\* the texts typed into the seed box: "" and "3"
SeedTexts == {<<>>, <<51>>}

\* lines 135-153: the state of App at its first render, with the text
\* seedText in the seed box, in a root of either kind; the call of checkMobile
\* made when App is mounted (line 157) is a step CheckMobile
AppWithSeed(seedText) ==
  /\ puzzle = Null
  /\ playerGrid = <<>>
  /\ gameState = [status |-> "idle"]
  /\ isDebugVisible = FALSE
  /\ isCheckHintsActive = FALSE
  /\ winCorner = -1
  /\ activeTool = "FILL"
  /\ inputSeed = seedText
  /\ selectedSize = 10
  /\ selectedDifficulty = "MEDIUM"
  /\ isMobile = FALSE
  /\ isDragging = FALSE
  /\ dragTargetState = "null"
  /\ updates = <<>>
  /\ baseState = [puzzle |-> puzzle, playerGrid |-> playerGrid,
                  gameState |-> gameState, isDebugVisible |-> isDebugVisible,
                  isCheckHintsActive |-> isCheckHintsActive,
                  winCorner |-> winCorner, activeTool |-> activeTool,
                  inputSeed |-> inputSeed, selectedSize |-> selectedSize,
                  selectedDifficulty |-> selectedDifficulty, isMobile |-> isMobile]
  /\ effectPending = FALSE
  /\ legacyRoot \in BOOLEAN
  /\ pendingGames = <<>>
  /\ events = 0

AppInit == AppWithSeed(<<>>)

\* App before any game, and no evaluation made
NoGame ==
  /\ AppInit
  /\ verdict = NoVerdict

(***************************************************************************)
(* The evaluator on its own: the win check of the effect, isRowComplete    *)
(* and isColComplete are functions of the puzzle and the player grid.      *)
(* They are given any solution grid of a size up to MaxEvalSize and any    *)
(* player grid of that size; calls holds what they are given.              *)
(***************************************************************************)
SolutionGrids(size) == [0 .. size - 1 -> [0 .. size - 1 -> {0, 1}]]

PlayerGrids(size) == [0 .. size - 1 -> [0 .. size - 1 -> CellState]]

EvalInit ==
  /\ \E size \in 1 .. MaxEvalSize :
       \E g \in SolutionGrids(size), p \in PlayerGrids(size) :
         calls = <<[st |-> "pending",
                    puzzle |-> [grid |-> g, size |-> size],
                    playerGrid |-> p]>>
  /\ NoGame

\* the three queries are answered for the puzzle and the player grid given
EvalQuery ==
  /\ calls[1].st = "pending"
  /\ verdict' = Evaluate(calls[1].puzzle, calls[1].playerGrid)
  /\ calls' = [calls EXCEPT ![1].st = "done"]
  /\ UNCHANGED appVars

EvalNext == EvalQuery

EvalSpec == EvalInit /\ [][EvalNext]_vars

(***************************************************************************)
(* App: the seed of a new game.                                            *)
(***************************************************************************)
\* the white space and line terminators String.prototype.trim removes
WhiteSpace ==
  {9, 10, 11, 12, 13, 32, 160, 5760, 8232, 8233, 8239, 8287, 12288, 65279}
    \cup (8192 .. 8202)

\* seedVal && seedVal.trim().length > 0
NonBlank(str) == \E i \in 1 .. Len(str) : str[i] \notin WhiteSpace

\* /^\d+$/.test(seedVal)
IsNumeric(str) == Len(str) > 0 /\ \A i \in 1 .. Len(str) : str[i] \in 48 .. 57

\* Math.abs of a signed 32-bit integer; Math.abs(-2^31) is 2^31
NumAbs(hash) ==
  IF hash >= 0 THEN Num(hash)
  ELSE LET m == Num(-(hash + 1))
           low == m[3] + 1
       IN  <<0, m[2] + low \div 65536, low % 65536>>

\* parseInt(seedVal, 10) of a numeric text of at most 18 digits: the digits
\* give an integer, the number returned is the double nearest to it; acc
\* starts as Num(0)
RECURSIVE ParseInt(_, _, _)
ParseInt(str, i, acc) ==
  IF i > Len(str) THEN NumRound(acc)
  ELSE ParseInt(str, i + 1, NumTimesTenPlus(acc, str[i] - 48))

\* hash = ((hash << 5) - hash) + char; hash |= 0: 31 * hash + char wrapped to
\* a signed 32-bit integer, computed on 16-bit halves
HashStep(hash, char) ==
  LET a == hash \div 65536
      b == hash % 65536
      low == 31 * b + char
      lo == low % 65536
      hi == (31 * a + low \div 65536) % 65536
  IN  IF hi >= 32768 THEN (hi - 65536) * 65536 + lo ELSE hi * 65536 + lo

RECURSIVE HashLoop(_, _, _)
HashLoop(str, i, hash) ==
  IF i > Len(str) THEN hash ELSE HashLoop(str, i + 1, HashStep(hash, str[i]))

\* stringToSeed
StringToSeed(str) ==
  IF Len(str) = 0 THEN Num(0)
  ELSE NumAbs(HashLoop(str, 1, 0))

\* lines 180-189: the seeds startNewGame may hand to generatePuzzle; without
\* a text it is Math.floor(Math.random() * 2000000000), any of 0 .. MaxRandomSeed here
FinalSeeds(seedVal) ==
  IF NonBlank(seedVal)
  THEN IF IsNumeric(seedVal) THEN {ParseInt(seedVal, 1, Num(0))}
       ELSE {StringToSeed(seedVal)}
  ELSE {Num(n) : n \in 0 .. MaxRandomSeed}

(***************************************************************************)
(* App: React state, its updates and the renders.                          *)
(*                                                                         *)
(* A setter does not change what the handlers see: it queues an update,    *)
(* in a lane.  A render takes the lanes of the most urgent updates queued, *)
(* applies to each state its updates in those lanes in the order they were *)
(* queued, runs the component body on the result and commits it; the       *)
(* handlers of that render see the committed state until the next render.  *)
(* An update left out stays queued with every later update of the same     *)
(* state, and a later render applies them again from the value the state   *)
(* had before the first one left out (baseState).                          *)
(*                                                                         *)
(* Lanes.  The updates of a handler of a discrete event (mouse down,       *)
(* click, change, key down, resize) are synchronous: rendered before the   *)
(* next event is handled.  Those of a mouse-enter handler are continuous,  *)
(* and those made by an effect or by startNewGame after its await are      *)
(* default: both are rendered by a later task, and events may be handled   *)
(* first.  With a legacy root (React before 18, or ReactDOM.render) every  *)
(* update is synchronous: those of one handler or of one effect are        *)
(* rendered together, and each update made after an await is rendered on   *)
(* its own, at once.                                                       *)
(*                                                                         *)
(* The win-condition effect runs after a commit that changed playerGrid,   *)
(* puzzle or gameState.status: at once after a synchronous render of a     *)
(* root that is not legacy, and otherwise in a later task or at the start  *)
(* of the next render, whichever comes first.                              *)
(***************************************************************************)
\* the state the handlers of the last render see
ReactState ==
  [puzzle |-> puzzle, playerGrid |-> playerGrid, gameState |-> gameState,
   isDebugVisible |-> isDebugVisible, isCheckHintsActive |-> isCheckHintsActive,
   winCorner |-> winCorner, activeTool |-> activeTool, inputSeed |-> inputSeed,
   selectedSize |-> selectedSize, selectedDifficulty |-> selectedDifficulty,
   isMobile |-> isMobile]

\* the lane of an update made at the priority lane
Lane(lane) == IF legacyRoot THEN "Sync" ELSE lane

\* the call of a setter, <<set, value>>: set names the setter and how it is
\* called, value is its argument
Update(set, value, lane) == [call |-> <<set, value>>, lane |-> Lane(lane)]

\* the useState a setter belongs to
HookOf(set) ==
  CASE set = "Puzzle" -> "puzzle"
    [] set \in {"PlayerGrid", "UpdateCell"} -> "playerGrid"
    [] set = "GameState" -> "gameState"
    [] set \in {"IsDebugVisible", "ToggleDebugVisible"} -> "isDebugVisible"
    [] set \in {"IsCheckHintsActive", "ToggleCheckHintsActive"} -> "isCheckHintsActive"
    [] set = "WinCorner" -> "winCorner"
    [] set = "ActiveTool" -> "activeTool"
    [] set = "InputSeed" -> "inputSeed"
    [] set = "SelectedSize" -> "selectedSize"
    [] set = "SelectedDifficulty" -> "selectedDifficulty"
    [] set = "IsMobile" -> "isMobile"

\* line 233: the updater of updateCell reads prev[r][c], a TypeError when
\* prev has no row r
UpdaterThrows(s, u) ==
  u.call[1] = "UpdateCell" /\ u.call[2][1] \notin DOMAIN s.playerGrid

\* one update applied to the state s
ApplyUpdate(s, u) ==
  CASE u.call[1] = "Puzzle" -> [s EXCEPT !.puzzle = u.call[2]]
    [] u.call[1] = "PlayerGrid" -> [s EXCEPT !.playerGrid = u.call[2]]
    [] u.call[1] = "UpdateCell" ->
         IF UpdaterThrows(s, u) THEN s
         ELSE [s EXCEPT !.playerGrid =
                 UpdateCellGrid(s.playerGrid, u.call[2][1], u.call[2][2], u.call[2][3])]
    [] u.call[1] = "GameState" -> [s EXCEPT !.gameState = [status |-> u.call[2]]]
    [] u.call[1] = "IsDebugVisible" -> [s EXCEPT !.isDebugVisible = u.call[2]]
    [] u.call[1] = "ToggleDebugVisible" -> [s EXCEPT !.isDebugVisible = ~s.isDebugVisible]
    [] u.call[1] = "IsCheckHintsActive" -> [s EXCEPT !.isCheckHintsActive = u.call[2]]
    [] u.call[1] = "ToggleCheckHintsActive" ->
         [s EXCEPT !.isCheckHintsActive = ~s.isCheckHintsActive]
    [] u.call[1] = "WinCorner" -> [s EXCEPT !.winCorner = u.call[2]]
    [] u.call[1] = "ActiveTool" -> [s EXCEPT !.activeTool = u.call[2]]
    [] u.call[1] = "InputSeed" -> [s EXCEPT !.inputSeed = u.call[2]]
    [] u.call[1] = "SelectedSize" -> [s EXCEPT !.selectedSize = u.call[2]]
    [] u.call[1] = "SelectedDifficulty" -> [s EXCEPT !.selectedDifficulty = u.call[2]]
    [] u.call[1] = "IsMobile" -> [s EXCEPT !.isMobile = u.call[2]]

\* the update gives its state a new object: every call of setPuzzle and of
\* setPlayerGrid with a value does, the updater of updateCell returns prev
\* when the cell already has the new state
NewObject(s, u) ==
  \/ u.call[1] \in {"Puzzle", "PlayerGrid"}
  \/ /\ u.call[1] = "UpdateCell"
     /\ ~UpdaterThrows(s, u)
     /\ UpdateCellGrid(s.playerGrid, u.call[2][1], u.call[2][2], u.call[2][3]) /= s.playerGrid

\* the lanes of the next render: the most urgent lane with an update
\* queued, and with the continuous lane the default one
NextLanes(queue) ==
  LET pending == {queue[i].lane : i \in DOMAIN queue}
  IN  IF "Sync" \in pending THEN {"Sync"}
      ELSE IF "InputContinuous" \in pending THEN {"InputContinuous", "Default"}
      ELSE IF "Default" \in pending THEN {"Default"}
      ELSE {}

\* The queue processed by a render of the lanes.  An update of another lane
\* is skipped and kept; an update applied after a skipped one of its state
\* is kept too, in no lane, to be applied again.  In acc, state is the new
\* state, base the value each state had at its first skipped update, rest
\* the updates kept, fresh the states given a new object, and threw tells
\* that an updater threw.
RECURSIVE ProcessQueue(_, _, _)
ProcessQueue(acc, queue, lanes) ==
  IF queue = <<>> \/ acc.threw THEN acc
  ELSE LET u == Head(queue)
           hook == HookOf(u.call[1])
       IN  IF u.lane \in lanes \cup {"No"}
           THEN ProcessQueue(
                  [state |-> ApplyUpdate(acc.state, u),
                   base |-> acc.base,
                   skipped |-> acc.skipped,
                   rest |-> IF hook \in acc.skipped
                            THEN Append(acc.rest, [u EXCEPT !.lane = "No"])
                            ELSE acc.rest,
                   fresh |-> IF NewObject(acc.state, u)
                             THEN acc.fresh \cup {hook} ELSE acc.fresh,
                   threw |-> UpdaterThrows(acc.state, u)],
                  Tail(queue), lanes)
           ELSE ProcessQueue(
                  [state |-> acc.state,
                   base |-> IF hook \in acc.skipped THEN acc.base
                            ELSE [acc.base EXCEPT ![hook] = acc.state[hook]],
                   skipped |-> acc.skipped \cup {hook},
                   rest |-> Append(acc.rest, u),
                   fresh |-> acc.fresh,
                   threw |-> FALSE],
                  Tail(queue), lanes)

\* lines 473, 485, 503, 518: the component body throws a TypeError when the
\* grid is rendered and playerGrid has no row for a row of the puzzle
RenderThrows(s) ==
  /\ s.puzzle /= Null
  /\ s.gameState.status \in {"playing", "won"}
  /\ \E r \in 0 .. s.puzzle.size - 1 : r \notin DOMAIN s.playerGrid

\* lines 203-229: the updates the win-condition effect makes when it runs
\* on the committed state s; the corner is Math.floor(Math.random() * 4)
WinEffect(s) ==
  IF /\ s.gameState.status = "playing"
     /\ s.puzzle /= Null
     /\ IsWin(s.puzzle, s.playerGrid)
  THEN {<<Update("GameState", "won", "Default"),
          Update("IsDebugVisible", FALSE, "Default"),
          Update("IsCheckHintsActive", TRUE, "Default"),
          Update("WinCorner", corner, "Default")>> : corner \in 0 .. 3}
  ELSE {<<>>}

\* One render of the queue.  The effect still to run runs first, on the
\* committed state, and its updates join the queue; then the queue is
\* processed and the result committed.  A throw while rendering unmounts
\* App, written as the status "crashed": nothing is rendered or handled any
\* more.
Flush(queue) ==
  \E passive \in (IF effectPending THEN WinEffect(ReactState) ELSE {<<>>}) :
    LET all == queue \o passive
        lanes == NextLanes(all)
        acc == ProcessQueue([state |-> baseState, base |-> baseState,
                             skipped |-> {}, rest |-> <<>>, fresh |-> {},
                             threw |-> FALSE],
                            all, lanes)
        s == acc.state
        depsChanged == \/ "playerGrid" \in acc.fresh
                       \/ "puzzle" \in acc.fresh
                       \/ s.gameState.status /= gameState.status
    IN  IF acc.threw \/ RenderThrows(s)
        THEN /\ gameState' = [status |-> "crashed"]
             /\ updates' = <<>>
             /\ effectPending' = FALSE
             /\ UNCHANGED <<puzzle, playerGrid, isDebugVisible, isCheckHintsActive,
                            winCorner, activeTool, inputSeed, selectedSize,
                            selectedDifficulty, isMobile, baseState>>
        ELSE /\ puzzle' = s.puzzle
             /\ playerGrid' = s.playerGrid
             /\ gameState' = s.gameState
             /\ isDebugVisible' = s.isDebugVisible
             /\ isCheckHintsActive' = s.isCheckHintsActive
             /\ winCorner' = s.winCorner
             /\ activeTool' = s.activeTool
             /\ inputSeed' = s.inputSeed
             /\ selectedSize' = s.selectedSize
             /\ selectedDifficulty' = s.selectedDifficulty
             /\ isMobile' = s.isMobile
             /\ baseState' = [hook \in DOMAIN s |->
                                IF hook \in acc.skipped THEN acc.base[hook]
                                ELSE s[hook]]
             /\ IF depsChanged /\ "Sync" \in lanes /\ ~legacyRoot
                THEN /\ effectPending' = FALSE
                     /\ \E effect \in WinEffect(s) : updates' = acc.rest \o effect
                ELSE /\ effectPending' = depsChanged
                     /\ updates' = acc.rest

\* The updates us made by a handler, an effect or a continuation: with a
\* synchronous one among them they are rendered, with all that is queued,
\* before the next event; otherwise the render is left to a later task.
Schedule(us) ==
  IF \E i \in DOMAIN us : us[i].lane = "Sync"
  THEN Flush(updates \o us)
  ELSE /\ updates' = updates \o us
       /\ UNCHANGED <<stateVars, baseState, effectPending>>

\* App is mounted
Mounted == gameState.status /= "crashed"

\* a legacy root is rendering the updates made after an await one by one
LegacyBusy == pendingGames /= <<>> /\ Head(pendingGames).step > 0

\* App handles one more user event
Handled ==
  /\ Mounted
  /\ ~LegacyBusy
  /\ events < MaxEvents
  /\ events' = events + 1

\* a later task renders what is queued
Render ==
  /\ Mounted
  /\ ~LegacyBusy
  /\ updates /= <<>>
  /\ Flush(updates)
  /\ UNCHANGED <<calls, dragVars, legacyRoot, pendingGames, events, verdict>>

\* a later task runs the effect of the last commit; a legacy root renders
\* its updates at once
FlushPassiveEffects ==
  /\ Mounted
  /\ ~LegacyBusy
  /\ effectPending
  /\ IF legacyRoot
     THEN Flush(updates)
     ELSE /\ \E effect \in WinEffect(ReactState) : updates' = updates \o effect
          /\ effectPending' = FALSE
          /\ UNCHANGED <<stateVars, baseState>>
  /\ UNCHANGED <<calls, dragVars, legacyRoot, pendingGames, events, verdict>>

\* line 473: the grid is rendered
GridShown == puzzle /= Null /\ gameState.status \in {"playing", "won"}

\* lines 503-518: the cell at row r and column c is rendered
CellShown(r, c) ==
  /\ GridShown
  /\ r < puzzle.size
  /\ r \in DOMAIN playerGrid
  /\ c \in DOMAIN playerGrid[r]

\* lines 174-192: startNewGame up to the await inside generatePuzzle.  It is
\* called by Enter in the seed box (in any state), by PLAY (disabled while
\* loading) and by Play Another (shown when won).
StartNewGame(via) ==
  /\ Handled
  /\ \/ via = "Enter"
     \/ via = "PLAY" /\ gameState.status /= "loading"
     \/ via = "PlayAnother" /\ gameState.status = "won" /\ puzzle /= Null
  /\ Len(pendingGames) < MaxPending
  /\ \E finalSeed \in FinalSeeds(inputSeed) :
       pendingGames' = Append(pendingGames,
                              [seed |-> finalSeed, size |-> selectedSize,
                               difficulty |-> DIFFICULTY_CONFIG[selectedDifficulty],
                               step |-> 0])
  /\ Schedule(<<Update("GameState", "loading", "Sync"),
                Update("IsDebugVisible", FALSE, "Sync"),
                Update("IsCheckHintsActive", FALSE, "Sync"),
                Update("WinCorner", -1, "Sync")>>)
  /\ UNCHANGED <<calls, dragVars, legacyRoot, verdict>>

\* line 195: the size of the new player grid
NewGridSize(newPuzzle) == newPuzzle.size

\* generatePuzzle throws: Array(size) is a RangeError for a negative size,
\* and for size 0 the safety check writes grid[0][0] of an empty grid
GeneratePuzzleThrows(size) == size < 1

\* the difficulty levels chosen in the App model
AppLevels == {"MEDIUM", "HARD"}

\* the arguments startNewGame may give generatePuzzle in the App model
AppRequests ==
  {<<seed, size, DIFFICULTY_CONFIG[level]>> :
     seed \in UNION {FinalSeeds(text) : text \in SeedTexts},
     size \in GridSizes, level \in AppLevels}

\* line 192: what generatePuzzle resolves to for each of these arguments
GeneratedPuzzles ==
  [a \in AppRequests |-> GeneratePuzzle(a[1], a[2], a[3])]

\* lines 194-196: the updates startNewGame makes with the puzzle its await
\* gave
PuzzleUpdates(newPuzzle) ==
  <<Update("Puzzle", newPuzzle, "Default"),
    Update("PlayerGrid", CreateEmptyGrid(NewGridSize(newPuzzle)), "Default"),
    Update("GameState", "playing", "Default")>>

\* lines 192-196, or line 198 in the catch: the updates startNewGame makes
\* after its await for the request a
ResumeUpdates(a) ==
  IF GeneratePuzzleThrows(a.size)
  THEN <<Update("GameState", "error", "Default")>>
  ELSE PuzzleUpdates(GeneratedPuzzles[<<a.seed, a.size, a.difficulty>>])

\* lines 192-199: the oldest pending generatePuzzle settles (its timer has
\* fired) and startNewGame goes on after its await, or in its catch.  Its
\* updates are scheduled together; with a legacy root each is rendered on
\* its own, in a step of its own with no event in between.  Once App is
\* unmounted the updates are dropped.
StartNewGameResume ==
  /\ pendingGames /= <<>>
  /\ LET a == Head(pendingGames)
         us == ResumeUpdates(a)
     IN  IF ~Mounted
         THEN /\ pendingGames' = Tail(pendingGames)
              /\ UNCHANGED <<stateVars, updates, baseState, effectPending>>
         ELSE IF ~legacyRoot
         THEN /\ pendingGames' = Tail(pendingGames)
              /\ Schedule(us)
         ELSE /\ Schedule(<<us[a.step + 1]>>)
              /\ pendingGames' =
                   IF a.step + 1 = Len(us) THEN Tail(pendingGames)
                   ELSE [pendingGames EXCEPT ![1].step = a.step + 1]
  /\ UNCHANGED <<calls, dragVars, legacyRoot, events, verdict>>

\* lines 242-264; button 2 is the right button
HandleMouseDown(button, r, c) ==
  /\ Handled
  /\ CellShown(r, c)
  /\ IF gameState.status /= "playing"
     THEN UNCHANGED <<stateVars, updates, baseState, effectPending, dragVars>>
     ELSE LET tool == IF button = 2 THEN "CROSS" ELSE activeTool
              currentCell == playerGrid[r][c]
              targetState ==
                IF tool = "FILL"
                THEN (IF currentCell = "FILLED" THEN "EMPTY" ELSE "FILLED")
                ELSE (IF currentCell = "CROSSED" THEN "EMPTY" ELSE "CROSSED")
          IN  /\ isDragging' = TRUE
              /\ dragTargetState' = targetState
              /\ Schedule(<<Update("UpdateCell", <<r, c, targetState>>, "Sync")>>)
  /\ UNCHANGED <<calls, legacyRoot, pendingGames, verdict>>

\* lines 266-271
HandleMouseEnter(r, c) ==
  /\ Handled
  /\ CellShown(r, c)
  /\ IF \/ gameState.status /= "playing"
        \/ ~isDragging
        \/ dragTargetState = "null"
     THEN UNCHANGED <<stateVars, updates, baseState, effectPending>>
     ELSE Schedule(<<Update("UpdateCell", <<r, c, dragTargetState>>,
                            "InputContinuous")>>)
  /\ UNCHANGED <<calls, dragVars, legacyRoot, pendingGames, verdict>>

\* lines 165-168
HandleGlobalMouseUp ==
  /\ Handled
  /\ isDragging' = FALSE
  /\ dragTargetState' = "null"
  /\ UNCHANGED <<calls, stateVars, updates, baseState, effectPending, legacyRoot,
                 pendingGames, verdict>>

\* lines 155-161: the resize listener; narrow is window.innerWidth < 768, and
\* resize is a discrete event
CheckMobile(narrow) ==
  /\ Handled
  /\ Schedule(<<Update("IsMobile", narrow, "Sync")>>)
  /\ UNCHANGED <<calls, dragVars, legacyRoot, pendingGames, verdict>>

\* lines 274-276; the button is rendered while playing
HandleDebugToggle ==
  /\ Handled
  /\ puzzle /= Null /\ gameState.status = "playing"
  /\ Schedule(<<Update("ToggleDebugVisible", "prev", "Sync")>>)
  /\ UNCHANGED <<calls, dragVars, legacyRoot, pendingGames, verdict>>

\* lines 279-281; the button is rendered while playing
HandleCheckHintsToggle ==
  /\ Handled
  /\ puzzle /= Null /\ gameState.status = "playing"
  /\ Schedule(<<Update("ToggleCheckHintsActive", "prev", "Sync")>>)
  /\ UNCHANGED <<calls, dragVars, legacyRoot, pendingGames, verdict>>

\* lines 286-288: solvedGrid
SolvedGrid(pz) ==
  [r \in 0 .. pz.size - 1 |-> [c \in 0 .. pz.size - 1 |->
     IF pz.grid[r][c] = 1 THEN "FILLED" ELSE "EMPTY"]]

\* a cheat that rewrites the solution into what the player has drawn
HandleCheatWinInPlace ==
  /\ Handled
  /\ puzzle /= Null /\ gameState.status = "playing"
  /\ Schedule(<<Update("Puzzle",
        [puzzle EXCEPT !.grid =
           [r \in 0 .. puzzle.size - 1 |-> [c \in 0 .. puzzle.size - 1 |->
              IF playerGrid[r][c] = "FILLED" THEN 1 ELSE 0]]], "Sync")>>)
  /\ UNCHANGED <<calls, dragVars, legacyRoot, pendingGames, verdict>>

\* lines 284-290; the button is rendered while playing
HandleCheatWin ==
  /\ Handled
  /\ puzzle /= Null /\ gameState.status = "playing"
  /\ Schedule(<<Update("PlayerGrid", SolvedGrid(puzzle), "Sync")>>)
  /\ UNCHANGED <<calls, dragVars, legacyRoot, pendingGames, verdict>>

\* lines 445, 451: the tool buttons, rendered while playing on a narrow viewport
SetActiveTool(tool) ==
  /\ Handled
  /\ gameState.status = "playing" /\ isMobile
  /\ Schedule(<<Update("ActiveTool", tool, "Sync")>>)
  /\ UNCHANGED <<calls, dragVars, legacyRoot, pendingGames, verdict>>

\* line 367
SetSelectedSize(size) ==
  /\ Handled
  /\ Schedule(<<Update("SelectedSize", size, "Sync")>>)
  /\ UNCHANGED <<calls, dragVars, legacyRoot, pendingGames, verdict>>

\* line 378
SetSelectedDifficulty(level) ==
  /\ Handled
  /\ Schedule(<<Update("SelectedDifficulty", level, "Sync")>>)
  /\ UNCHANGED <<calls, dragVars, legacyRoot, pendingGames, verdict>>

\* line 391
SetInputSeed(text) ==
  /\ Handled
  /\ Schedule(<<Update("InputSeed", text, "Sync")>>)
  /\ UNCHANGED <<calls, dragVars, legacyRoot, pendingGames, verdict>>

\* the cells <<row, column>> the pointer goes to
PointerCells == {<<0, 0>>, <<2, 2>>, <<5, 5>>}

Init ==
  /\ calls = <<>>
  /\ NoGame

Next ==
  \/ \E via \in {"Enter", "PLAY", "PlayAnother"} : StartNewGame(via)
  \/ StartNewGameResume
  \/ Render
  \/ FlushPassiveEffects
  \/ \E button \in {0, 2}, cell \in PointerCells :
       HandleMouseDown(button, cell[1], cell[2])
  \/ \E cell \in PointerCells : HandleMouseEnter(cell[1], cell[2])
  \/ HandleGlobalMouseUp
  \/ \E narrow \in BOOLEAN : CheckMobile(narrow)
  \/ HandleDebugToggle
  \/ HandleCheckHintsToggle
  \/ HandleCheatWin
  \/ \E tool \in {"FILL", "CROSS"} : SetActiveTool(tool)
  \/ \E size \in GridSizes : SetSelectedSize(size)
  \/ \E level \in AppLevels : SetSelectedDifficulty(level)
  \/ \E text \in SeedTexts : SetInputSeed(text)

Spec == Init /\ [][Next]_vars

\* The timer of a pending generatePuzzle fires and the call resumes: weak
\* fairness of StartNewGameResume, whose enabling condition is that a call
\* is pending.
FairSpec ==
  Spec /\ ([]<>(pendingGames = <<>>) \/ []<><<StartNewGameResume>>_vars)

(***************************************************************************)
(* The seed harness: a text is in the seed box, and startNewGame is called *)
(* with it (Enter, PLAY) up to twice; calls holds what it hands to         *)
(* generatePuzzle.                                                         *)
(***************************************************************************)
\* the characters typed: "9", "a", " "
SeedChars == {57, 97, 32}

SeedInputs == UNION {[1 .. n -> SeedChars] : n \in 0 .. MaxTextLen}

SeedInit ==
  /\ calls = <<>>
  /\ \E text \in SeedInputs : AppWithSeed(text)
  /\ verdict = NoVerdict

\* lines 174-192: startNewGame(inputSeed), called by Enter in the seed box,
\* up to the await inside generatePuzzle
SeedStartNewGame ==
  /\ Mounted
  /\ Len(calls) < 2
  /\ \E finalSeed \in FinalSeeds(inputSeed) :
       calls' = Append(calls,
                       [st |-> "pending", text |-> inputSeed, seed |-> finalSeed,
                        size |-> selectedSize,
                        difficulty |-> DIFFICULTY_CONFIG[selectedDifficulty]])
  /\ Schedule(<<Update("GameState", "loading", "Sync"),
                Update("IsDebugVisible", FALSE, "Sync"),
                Update("IsCheckHintsActive", FALSE, "Sync"),
                Update("WinCorner", -1, "Sync")>>)
  /\ UNCHANGED <<dragVars, legacyRoot, pendingGames, events, verdict>>

SeedNext == SeedStartNewGame

SeedSpec == SeedInit /\ [][SeedNext]_vars

(***************************************************************************)
(* Calls of generatePuzzle.  A call is suspended once, at its await of the *)
(* 50 ms timer, holding its three arguments; everything after the await    *)
(* runs without interruption.  calls[i] is one call: not yet made          *)
(* ("idle"), suspended at the await ("pending"), or resolved ("done", with *)
(* the PuzzleData it resolved to).                                         *)
(***************************************************************************)
IdleCall == [st |-> "idle"]

\* arguments kept in one place shared by all calls, where a later call
\* overwrites those of an earlier one still pending
CallArgsShared(i) ==
  LET pending == {j \in DOMAIN calls : calls[j].st = "pending"}
  IN  calls[CHOOSE j \in pending : \A k \in pending : k <= j]

\* the arguments call i holds across its await
CallArgs(i) == calls[i]

\* lines 28-34: the call is made and suspends at the await
GeneratePuzzleCall(i, seed, size, difficulty) ==
  /\ calls[i].st = "idle"
  /\ calls' = [calls EXCEPT ![i] =
                 [st |-> "pending", seed |-> seed, size |-> size,
                  difficulty |-> difficulty]]
  /\ UNCHANGED evalVars

\* lines 36-106: the timer fires and the call runs to its return
GeneratePuzzleResume(i) ==
  /\ calls[i].st = "pending"
  /\ LET a == CallArgs(i)
     IN  calls' = [calls EXCEPT ![i] =
                     [st |-> "done", seed |-> calls[i].seed,
                      size |-> calls[i].size,
                      difficulty |-> calls[i].difficulty,
                      result |-> GeneratePuzzle(a.seed, a.size, a.difficulty),
                      \* history: the locals of the call at its return
                      run |-> GenerateRun(a.seed, a.size, a.difficulty),
                      \* history: the other calls pending while this one ran
                      overlapped |-> {j \in DOMAIN calls \ {i} :
                                        calls[j].st = "pending"}]]
  /\ UNCHANGED evalVars

(***************************************************************************)
(* The generator on its own: one call, its inputs drawn from bounded sets. *)
(***************************************************************************)
\* bands beside those of DIFFICULTY_CONFIG: any 0 <= min <= max <= 1 is valid
ExtraBands ==
  {[minDensity |-> Percent(0), maxDensity |-> Percent(0)],
   [minDensity |-> Percent(100), maxDensity |-> Percent(100)],
   [minDensity |-> Percent(0), maxDensity |-> Percent(100)],
   [minDensity |-> Percent(30), maxDensity |-> Percent(30)],
   [minDensity |-> Percent(80), maxDensity |-> Percent(80)]}

ConfigBands == {DIFFICULTY_CONFIG[k] : k \in DifficultyLevels}

GenInit ==
  /\ calls = [i \in {1} |-> IdleCall]
  /\ NoGame

GenNext ==
  \/ \E seed \in 0 .. MaxSeed, size \in 1 .. MaxSize,
        difficulty \in ConfigBands \cup ExtraBands :
       GeneratePuzzleCall(1, Num(seed), size, difficulty)
  \/ GeneratePuzzleResume(1)

GenSpec == GenInit /\ [][GenNext]_vars

(***************************************************************************)
(* Overlapping calls: up to MaxCalls calls pending at the same time, each  *)
(* resumed in any order.                                                   *)
(***************************************************************************)
\* the bands the overlapping calls are given
ConcBands == {DIFFICULTY_CONFIG.MEDIUM, DIFFICULTY_CONFIG.VERY_HARD}

ConcInit ==
  /\ calls = [i \in 1 .. MaxCalls |-> IdleCall]
  /\ NoGame

ConcNext ==
  \E i \in 1 .. MaxCalls :
    \/ \E seed \in 0 .. MaxConcSeed, size \in 1 .. MaxConcSize,
          difficulty \in ConcBands :
         GeneratePuzzleCall(i, Num(seed), size, difficulty)
    \/ GeneratePuzzleResume(i)

ConcSpec == ConcInit /\ [][ConcNext]_vars

(***************************************************************************)
(* Two calls made one after the other or overlapping, each with any seed,  *)
(* size and band of the sets below, so that every pair of calls with the   *)
(* same inputs occurs, in every order of the calls and of their returns.   *)
(***************************************************************************)
\* a band of DIFFICULTY_CONFIG, the band that fills no cell, the band that
\* fills every cell, and a band whose target density is the bound 0.3 of
\* the smoothing step
PairBands ==
  {DIFFICULTY_CONFIG.MEDIUM,
   [minDensity |-> Percent(0), maxDensity |-> Percent(0)],
   [minDensity |-> Percent(100), maxDensity |-> Percent(100)],
   [minDensity |-> Percent(30), maxDensity |-> Percent(30)]}

PairInit ==
  /\ calls = [i \in 1 .. 2 |-> IdleCall]
  /\ NoGame

PairNext ==
  \E i \in 1 .. 2 :
    \/ \E seed \in 0 .. MaxPairSeed, size \in 1 .. MaxPairSize,
          difficulty \in PairBands :
         GeneratePuzzleCall(i, Num(seed), size, difficulty)
    \/ GeneratePuzzleResume(i)

PairSpec == PairInit /\ [][PairNext]_vars

(***************************************************************************)
(* The generator given seeds from 2^53 on, which startNewGame hands over   *)
(* when the seed text is a numeral that large.                             *)
(***************************************************************************)
LargeSeeds == {<<2097152, 0, 2 * k>> : k \in 0 .. MaxLargeSeed}

LargeSeedInit ==
  /\ calls = [i \in {1} |-> IdleCall]
  /\ NoGame

LargeSeedNext ==
  \/ \E seed \in LargeSeeds, size \in 1 .. MaxSize,
        difficulty \in ConfigBands \cup ExtraBands :
       GeneratePuzzleCall(1, seed, size, difficulty)
  \/ GeneratePuzzleResume(1)

LargeSeedSpec == LargeSeedInit /\ [][LargeSeedNext]_vars

(***************************************************************************)
(* What the claims say of the generator, stated cell by cell and           *)
(* independently of the loops above.                                       *)
(***************************************************************************)
DoneCalls == {i \in DOMAIN calls : calls[i].st = "done"}

Cells(size) == (0 .. size - 1) \X (0 .. size - 1)

\* the filled cells of a grid
FilledCells(g, size) == {p \in Cells(size) : g[p[1]][p[2]] = 1}

\* the cells in which two grids differ
DiffCells(g, h, size) == {p \in Cells(size) : g[p[1]][p[2]] /= h[p[1]][p[2]]}

\* num + k, exactly
RECURSIVE NumPlus(_, _)
NumPlus(num, k) == IF k = 0 THEN num ELSE NumPlus(NumInc(num), k - 1)

\* v itself: the comparison makes TLC evaluate v once, not at every use
Once(v) == IF v = v THEN v ELSE v

\* the draw made when the counter is n
DrawAt(n) == DoubleOfTable(SinTable, n)

\* the target density of call c: fixed by the draw at counter seed
ClaimTarget(c) ==
  DoubleAdd(c.difficulty.minDensity,
            DoubleMul(DrawAt(NumValue(c.seed)),
                      DoubleSub(c.difficulty.maxDensity, c.difficulty.minDensity)))

\* the raw noise grid: cell (y, x) is the draw at counter seed + 1 + y*size + x
ClaimNoise(c) ==
  LET td == Once(ClaimTarget(c))
  IN  [y \in 0 .. c.size - 1 |-> [x \in 0 .. c.size - 1 |->
         IF BigLess(DrawAt(NumValue(c.seed) + 1 + y * c.size + x), td) THEN 1 ELSE 0]]

\* 0.3 and 0.8
ClaimAbove == Percent(30)

ClaimBelow == Percent(80)

ClaimInRange(td) == BigLess(ClaimAbove, td) /\ BigLess(td, ClaimBelow)

\* the filled in-bounds Moore neighbours of (y, x), F being the filled cells
MooreFilled(F, y, x) ==
  {p \in F :
     /\ p /= <<y, x>>
     /\ p[1] \in y - 1 .. y + 1
     /\ p[2] \in x - 1 .. x + 1}

\* one smoothing iteration, every cell computed from the grid before it
ClaimStep(g0, size) ==
  LET g == Once(g0)
      F == Once(FilledCells(g, size))
  IN  [y \in 0 .. size - 1 |-> [x \in 0 .. size - 1 |->
         LET n == Cardinality(MooreFilled(F, y, x))
         IN  IF g[y][x] = 1 THEN (IF n >= 3 THEN 1 ELSE 0)
                            ELSE (IF n >= 4 THEN 1 ELSE 0)]]

\* the grid after the smoothing step: two iterations in range, the noise otherwise
ClaimSmoothed(c) ==
  Once(IF ClaimInRange(ClaimTarget(c))
       THEN ClaimStep(ClaimStep(ClaimNoise(c), c.size), c.size)
       ELSE ClaimNoise(c))

\* the cells the non-degeneracy correction changes in grid g
CorrectionCells(g, size) ==
  IF FilledCells(g, size) = {} THEN {<<size \div 2, size \div 2>>}
  ELSE IF FilledCells(g, size) = Cells(size) THEN {<<0, 0>>}
  ELSE {}

\* grid g with the cells of P set to v
WithCells(g, size, P, v) ==
  [y \in 0 .. size - 1 |-> [x \in 0 .. size - 1 |->
     IF <<y, x>> \in P THEN v ELSE g[y][x]]]

\* the grid after the correction step
ClaimCorrected(g, size) ==
  IF FilledCells(g, size) = {} THEN WithCells(g, size, CorrectionCells(g, size), 1)
  ELSE IF FilledCells(g, size) = Cells(size)
       THEN WithCells(g, size, CorrectionCells(g, size), 0)
  ELSE g

\* the PuzzleData call c returns when it runs alone
ClaimPuzzle(c) ==
  [title |-> Title(c.seed),
   grid |-> ClaimCorrected(ClaimSmoothed(c), c.size),
   size |-> c.size,
   seed |-> c.seed]

SameInputs(c, d) ==
  c.seed = d.seed /\ c.size = d.size /\ c.difficulty = d.difficulty

(***************************************************************************)
(* C1  Determinism: two calls of generatePuzzle with the same seed, size   *)
(* and band return solution grids that are equal cell for cell, the grid   *)
(* being fixed by the arguments alone: the counter of each call's rng      *)
(* starts at the seed, is advanced once for the density and once for each  *)
(* cell, and the grid of either call is the one the draws at these         *)
(* counters give for the arguments of the other.  (PairSpec)               *)
(***************************************************************************)
C1_Determinism ==
  \A j \in DoneCalls :
    LET fixed == Once(ClaimCorrected(ClaimSmoothed(calls[j]), calls[j].size))
    IN  \A i \in DoneCalls :
          SameInputs(calls[i], calls[j]) =>
            /\ calls[i].run.rng0 = calls[j].seed
            /\ calls[i].run.rng
                 = NumPlus(calls[j].seed, 1 + calls[j].size * calls[j].size)
            /\ DiffCells(calls[i].result.grid, fixed, calls[j].size) = {}
            /\ DiffCells(calls[i].result.grid, calls[j].result.grid,
                         calls[i].size) = {}

\* two different calls with the same inputs have both returned, the second
\* made while the first was pending, in a band whose draws fill some cells
\* and leave others empty and whose smoothing changes the grid
C1_Witness ==
  \E i \in DoneCalls, j \in DoneCalls :
    /\ i /= j
    /\ j \in calls[i].overlapped
    /\ SameInputs(calls[i], calls[j])
    /\ calls[i].size >= 2
    /\ FilledCells(ClaimNoise(calls[i]), calls[i].size)
         \notin {{}, Cells(calls[i].size)}
    /\ ClaimInRange(ClaimTarget(calls[i]))
    /\ calls[i].result.grid /= ClaimNoise(calls[i])

(***************************************************************************)
(* C2  Non-degeneracy: for size >= 2 and a valid band, the returned grid   *)
(* has at least one filled and at least one empty cell.  (GenSpec)         *)
(***************************************************************************)
C2_NonDegenerate ==
  \A i \in DoneCalls :
    calls[i].size >= 2 =>
      /\ FilledCells(calls[i].result.grid, calls[i].size) /= {}
      /\ FilledCells(calls[i].result.grid, calls[i].size) /= Cells(calls[i].size)

\* a call of size >= 2 whose grid was entirely filled before the correction
C2_Witness ==
  \E i \in DoneCalls :
    /\ calls[i].size >= 2
    /\ FilledCells(ClaimSmoothed(calls[i]), calls[i].size) = Cells(calls[i].size)

(***************************************************************************)
(* What the claims say of the evaluator.                                   *)
(***************************************************************************)
\* the cell match rule
CellMatches(solution, player) ==
  \/ solution = 1 /\ player = "FILLED"
  \/ solution = 0 /\ player /= "FILLED"

\* the player grids that differ from grid only by CROSSED cells made EMPTY
\* or EMPTY cells made CROSSED
MarkVariants(grid, size) ==
  {q \in [0 .. size - 1 -> [0 .. size - 1 -> CellState]] :
     \A p \in Cells(size) :
       (q[p[1]][p[2]] = "FILLED") = (grid[p[1]][p[2]] = "FILLED")}

(***************************************************************************)
(* C3  Whole-grid win: the win check, with its inner-loop break, yields    *)
(* true iff every cell matches, a cell matching iff (solution 1 and player *)
(* FILLED) or (solution 0 and player not FILLED).  (EvalSpec)              *)
(***************************************************************************)
C3_WholeGridWin ==
  calls[1].st = "done" =>
    verdict.isWin =
      (\A p \in Cells(calls[1].puzzle.size) :
         CellMatches(calls[1].puzzle.grid[p[1]][p[2]],
                     calls[1].playerGrid[p[1]][p[2]]))

\* the example: S = [[1,0],[0,1]], P = [[FILLED,EMPTY],[CROSSED,FILLED]] is a win
C3_Witness ==
  /\ calls[1].st = "done"
  /\ calls[1].puzzle.size = 2
  /\ calls[1].puzzle.grid =
       [r \in 0 .. 1 |-> [c \in 0 .. 1 |-> IF r = c THEN 1 ELSE 0]]
  /\ calls[1].playerGrid[0][0] = "FILLED" /\ calls[1].playerGrid[0][1] = "EMPTY"
  /\ calls[1].playerGrid[1][0] = "CROSSED" /\ calls[1].playerGrid[1][1] = "FILLED"
  /\ verdict.isWin
  /\ verdict.rows[0]
  /\ verdict.cols[1]

(***************************************************************************)
(* C4  Evaluator correctness: the whole-grid win verdict is true iff       *)
(* isRowComplete(r) is true for every row and isColComplete(c) for every   *)
(* column.  (EvalSpec)                                                     *)
(***************************************************************************)
C4_EvaluatorCorrectness ==
  calls[1].st = "done" =>
    verdict.isWin =
      (/\ \A r \in 0 .. calls[1].puzzle.size - 1 : verdict.rows[r]
       /\ \A c \in 0 .. calls[1].puzzle.size - 1 : verdict.cols[c])

\* no win, though a row and a column are complete: the player has filled
\* (0,0) and the only wrong cell is (1,1)
C4_Witness ==
  /\ calls[1].st = "done"
  /\ calls[1].puzzle.size = 2
  /\ calls[1].playerGrid[0][0] = "FILLED"
  /\ ~verdict.isWin
  /\ verdict.rows[0] /\ ~verdict.rows[1]
  /\ verdict.cols[0] /\ ~verdict.cols[1]

(***************************************************************************)
(* C5  CROSSED/EMPTY symmetry: replacing any set of CROSSED cells by EMPTY *)
(* or of EMPTY cells by CROSSED changes none of the verdicts (win, every   *)
(* row, every column).  (EvalSpec)                                         *)
(***************************************************************************)
C5_CrossedEmptySymmetry ==
  calls[1].st = "done" =>
    \A q \in MarkVariants(calls[1].playerGrid, calls[1].puzzle.size) :
      Evaluate(calls[1].puzzle, q) = verdict

\* a won grid with a CROSSED and an EMPTY cell, both on empty solution cells
C5_Witness ==
  /\ calls[1].st = "done"
  /\ verdict.isWin
  /\ \E p \in Cells(calls[1].puzzle.size), q \in Cells(calls[1].puzzle.size) :
       /\ calls[1].playerGrid[p[1]][p[2]] = "CROSSED"
       /\ calls[1].playerGrid[q[1]][q[2]] = "EMPTY"

(***************************************************************************)
(* C6  Size invariant during play: whenever the status is playing or won,  *)
(* the player grid is a puzzle.size x puzzle.size matrix, whatever new-game *)
(* requests (also overlapping ones with different selected sizes), cell    *)
(* edits and cheat-wins came before.  It fails: the puzzle and the player  *)
(* grid are two states, and a render can give one its new value and not    *)
(* the other.  (Spec)                                                      *)
(***************************************************************************)
C6_SizeInvariant ==
  gameState.status \in {"playing", "won"} =>
    /\ puzzle /= Null
    /\ DOMAIN playerGrid = 0 .. puzzle.size - 1
    /\ \A r \in DOMAIN playerGrid : DOMAIN playerGrid[r] = 0 .. puzzle.size - 1

(***************************************************************************)
(* C7  Smoothing boundary: when targetDensity <= 0.3 or >= 0.8 the         *)
(* returned grid equals the raw noise grid in every cell but the one the   *)
(* non-degeneracy correction changes.  (GenSpec)                           *)
(***************************************************************************)
C7_SmoothingBoundary ==
  \A i \in DoneCalls :
    ~ClaimInRange(ClaimTarget(calls[i])) =>
      DiffCells(calls[i].result.grid, ClaimNoise(calls[i]), calls[i].size)
        \subseteq CorrectionCells(ClaimNoise(calls[i]), calls[i].size)

\* a call whose targetDensity is exactly 0.3 or exactly 0.8 and whose noise
\* grid an iteration of smoothing would have changed
C7_Witness ==
  \E i \in DoneCalls :
    /\ ClaimTarget(calls[i]) \in {ClaimAbove, ClaimBelow}
    /\ ClaimStep(ClaimNoise(calls[i]), calls[i].size) /= ClaimNoise(calls[i])
    /\ calls[i].result.grid = ClaimNoise(calls[i])

(***************************************************************************)
(* C8  Smoothing rule: when smoothing applies, the grid before the         *)
(* correction is the noise grid after exactly two iterations, each cell of *)
(* an iteration computed from the grid before that iteration: filled stays *)
(* filled iff >= 3 filled in-bounds Moore neighbours, empty becomes filled *)
(* iff >= 4.  (GenSpec)                                                    *)
(***************************************************************************)
C8_SmoothingRule ==
  \A i \in DoneCalls :
    ClaimInRange(ClaimTarget(calls[i])) =>
      LET two == ClaimStep(ClaimStep(ClaimNoise(calls[i]), calls[i].size),
                           calls[i].size)
      IN  DiffCells(calls[i].result.grid, two, calls[i].size)
            \subseteq CorrectionCells(two, calls[i].size)

\* a smoothed call in which the first iteration changes the noise, the
\* second changes it again, and the correction does not fire
C8_Witness ==
  \E i \in DoneCalls :
    LET n == calls[i].size
        one == ClaimStep(ClaimNoise(calls[i]), n)
        two == ClaimStep(one, n)
    IN  /\ ClaimInRange(ClaimTarget(calls[i]))
        /\ one /= ClaimNoise(calls[i])
        /\ two /= one
        /\ CorrectionCells(two, n) = {}
        /\ calls[i].result.grid = two

(***************************************************************************)
(* C9  Non-degeneracy correction: with no filled cell after smoothing the  *)
(* centre cell is set to 1, with every cell filled cell (0,0) is set to 0, *)
(* otherwise nothing changes; for every size >= 1 the output differs from  *)
(* the post-smoothing grid in at most one cell.  (GenSpec)                 *)
(***************************************************************************)
C9_Correction ==
  \A i \in DoneCalls :
    LET n == calls[i].size
        s == ClaimSmoothed(calls[i])
        g == calls[i].result.grid
        filled == Cardinality(FilledCells(s, n))
    IN  /\ filled = 0 => g = [s EXCEPT ![n \div 2][n \div 2] = 1]
        /\ filled = n * n => g = [s EXCEPT ![0][0] = 0]
        /\ (0 < filled /\ filled < n * n) => g = s
        /\ Cardinality(DiffCells(g, s, n)) <= 1

\* a call of size 1 whose only cell was empty after smoothing: the first
\* correction fills it, and the grid is then entirely filled
C9_Witness ==
  \E i \in DoneCalls :
    /\ calls[i].size = 1
    /\ FilledCells(ClaimSmoothed(calls[i]), 1) = {}
    /\ calls[i].result.grid[0][0] = 1

(***************************************************************************)
(* C10  Independence of overlapping calls: every call that has returned,   *)
(* whichever calls were pending while it ran and in whatever order they    *)
(* were resumed, holds the PuzzleData its own arguments give when run      *)
(* alone.  (ConcSpec)                                                      *)
(***************************************************************************)
C10_Independence ==
  \A i \in DoneCalls : calls[i].result = ClaimPuzzle(calls[i])

\* a call has returned that ran while another call, with another seed and
\* another size, was pending
C10_Witness ==
  \E i \in DoneCalls :
    \E j \in calls[i].overlapped :
      /\ calls[j].st \in {"pending", "done"}
      /\ calls[j].seed /= calls[i].seed
      /\ calls[j].size /= calls[i].size

(***************************************************************************)
(* C11  Seed range: the seed startNewGame hands to generatePuzzle is a     *)
(* non-negative integer below 2^32, and a non-blank text always yields the *)
(* same seed.  (SeedSpec)                                                  *)
(***************************************************************************)
C11_SeedRange ==
  \A i \in DOMAIN calls :
    /\ calls[i].seed[1] = 0
    /\ calls[i].seed[2] \in 0 .. 65535
    /\ calls[i].seed[3] \in 0 .. 65535
    /\ \A j \in DOMAIN calls :
         NonBlank(calls[i].text) /\ calls[j].text = calls[i].text =>
           calls[j].seed = calls[i].seed

(***************************************************************************)
(* C12  RNG draw order: a call makes exactly 1 + size*size draws, each     *)
(* advancing the counter by one from the seed; the draw at counter seed    *)
(* fixes targetDensity, the draw at counter seed + 1 + y*size + x fixes    *)
(* noise cell (y, x); smoothing and correction make no draw.  It holds of  *)
(* the seeds of GenSpec and fails from 2^53 on.  (LargeSeedSpec)           *)
(***************************************************************************)
C12_DrawOrder ==
  \A i \in DoneCalls :
    LET c == calls[i]
    IN  /\ c.run.rng0 = c.seed
        /\ c.run.rng = NumPlus(c.seed, 1 + c.size * c.size)
        /\ c.run.targetDensity = ClaimTarget(c)
        /\ c.run.noise = ClaimNoise(c)

(***************************************************************************)
(* C13  Generation completes with a full result: a pending generatePuzzle  *)
(* call eventually resolves and does not throw (the status is never        *)
(* error); the PuzzleData it resolves to has a size x size grid of 0s and  *)
(* 1s, the size and the seed of the request, and the title "Pattern #"     *)
(* followed by the seed; no other grid is ever the current puzzle or       *)
(* queued to become it.  (FairSpec)                                        *)
(***************************************************************************)
\* pz is a full PuzzleData
ClaimFull(pz) ==
  /\ pz.size >= 1
  /\ DOMAIN pz.grid = 0 .. pz.size - 1
  /\ \A y \in 0 .. pz.size - 1 :
       /\ DOMAIN pz.grid[y] = 0 .. pz.size - 1
       /\ \A x \in 0 .. pz.size - 1 : pz.grid[y][x] \in {0, 1}
  /\ Len(pz.title) > 9
  /\ SubSeq(pz.title, 1, 9) = <<80, 97, 116, 116, 101, 114, 110, 32, 35>>
  /\ LET digits == SubSeq(pz.title, 10, Len(pz.title))
     IN  /\ IsNumeric(digits)
         /\ Len(digits) > 1 => digits[1] /= 48
         /\ ParseInt(digits, 1, Num(0)) = pz.seed

\* the values of the setPuzzle calls in the queue
ClaimQueuedPuzzles(queue) ==
  {queue[i].call[2] : i \in {k \in DOMAIN queue : queue[k].call[1] = "Puzzle"}}

\* the step is the one in which the oldest pending generatePuzzle resolves
\* while App is mounted
ClaimResolves ==
  /\ pendingGames /= <<>>
  /\ Head(pendingGames).step = 0
  /\ pendingGames' /= pendingGames
  /\ Len(pendingGames') <= Len(pendingGames)
  /\ gameState.status /= "crashed"
  /\ gameState'.status /= "crashed"

C13_CompletesFull ==
  /\ [](gameState.status /= "error")
  /\ [](\A pz \in ClaimQueuedPuzzles(updates) \cup ({puzzle} \ {Null}) :
          ClaimFull(pz))
  /\ [][ClaimResolves =>
         \E pz \in ClaimQueuedPuzzles(updates') \cup {puzzle'} :
           /\ pz /= Null
           /\ pz.size = Head(pendingGames).size
           /\ pz.seed = Head(pendingGames).seed]_vars
  /\ \A n \in 1 .. MaxPending :
       (Len(pendingGames) = n) ~> (Len(pendingGames) < n)

\* a request for size 5 with the seed text "3" has resolved into the game played
C13_Witness ==
  /\ puzzle /= Null
  /\ gameState.status = "playing"
  /\ pendingGames = <<>>
  /\ puzzle.size = 5
  /\ puzzle.seed = Num(3)

\* C14: the solution grid is immutable during a game.  No user event (mouse
\* down, drag enter, global mouse up, resize, tool selection, debug toggle,
\* hints toggle, cheat-win, the controls, the start of a request) and no run
\* of the win-condition effect changes the current puzzle or queues a
\* setPuzzle; the only setPuzzle queued is that of a pending request that
\* resolves, with the PuzzleData generated for it, and the puzzle changes
\* only by becoming such a PuzzleData as a whole.
ClaimGenerated(a) == GeneratedPuzzles[<<a.seed, a.size, a.difficulty>>]

C14_SolutionImmutable ==
  /\ [][events' /= events => puzzle' = puzzle]_vars
  /\ [][puzzle' /= puzzle =>
          puzzle' \in ClaimQueuedPuzzles(updates) \cup
            (IF pendingGames = <<>> THEN {}
             ELSE {ClaimGenerated(Head(pendingGames))})]_vars
  /\ [][ClaimQueuedPuzzles(updates') \subseteq
          ClaimQueuedPuzzles(updates) \cup
            (IF pendingGames /= <<>> /\ pendingGames' = Tail(pendingGames)
             THEN {ClaimGenerated(Head(pendingGames))}
             ELSE {})]_vars

\* a game in which the player has filled one cell, crossed another and
\* switched the debug view on
C14_Witness ==
  /\ puzzle /= Null
  /\ gameState.status = "playing"
  /\ isDebugVisible
  /\ \E r \in DOMAIN playerGrid : \E c \in DOMAIN playerGrid[r] :
       playerGrid[r][c] = "FILLED"
  /\ \E r \in DOMAIN playerGrid : \E c \in DOMAIN playerGrid[r] :
       playerGrid[r][c] = "CROSSED"

\* C15: won states are consistent and frozen.  In every state with status
\* 'won' there is a puzzle, and every cell of the player grid matches the
\* solution under the cell match rule (solution 1 with FILLED, solution 0 with
\* anything but FILLED); a step that makes the status 'won' starts with status
\* 'playing'; and a mouse-down or mouse-enter event handled while the status
\* is not 'playing' leaves the player grid as it was.  It fails: the effect
\* queues 'won', and until that is rendered the handlers see 'playing' and
\* go on changing the grid.
C15_WonFrozen ==
  /\ [](gameState.status = "won" =>
          /\ puzzle /= Null
          /\ \A r \in 0 .. puzzle.size - 1, c \in 0 .. puzzle.size - 1 :
               /\ r \in DOMAIN playerGrid
               /\ c \in DOMAIN playerGrid[r]
               /\ CellMatches(puzzle.grid[r][c], playerGrid[r][c]))
  /\ [][gameState'.status = "won" /\ gameState.status /= "won" =>
          gameState.status = "playing"]_vars
  /\ [][/\ gameState.status /= "playing"
        /\ \/ \E button \in {0, 2}, cell \in PointerCells :
                HandleMouseDown(button, cell[1], cell[2])
           \/ \E cell \in PointerCells : HandleMouseEnter(cell[1], cell[2])
        => playerGrid' = playerGrid]_vars

\* C16: a fresh game is never already won.  Whenever the status is 'playing'
\* and every cell of the player grid is EMPTY, the win condition is false of
\* the current puzzle; and whenever the effect finds a win (a 'won' more is
\* queued, or the status becomes 'won' with none queued before), the player
\* grid it ran on has a FILLED cell.
ClaimHasFilled(grid) ==
  \E r \in DOMAIN grid : \E c \in DOMAIN grid[r] : grid[r][c] = "FILLED"

\* the number of setGameState({status: 'won'}) calls in the queue
ClaimQueuedWon(queue) ==
  Cardinality({i \in DOMAIN queue :
                 queue[i].call[1] = "GameState" /\ queue[i].call[2] = "won"})

C16_FreshNotWon ==
  /\ [](/\ gameState.status = "playing"
        /\ puzzle /= Null
        /\ ~ClaimHasFilled(playerGrid)
        => ~IsWin(puzzle, playerGrid))
  /\ [][\/ ClaimQueuedWon(updates') > ClaimQueuedWon(updates)
        \/ /\ gameState'.status = "won"
           /\ gameState.status /= "won"
           /\ ClaimQueuedWon(updates) = 0
        => ClaimHasFilled(playerGrid) \/ ClaimHasFilled(playerGrid')]_vars

\* a game installed by the first event and won by the second, without a
\* pointer event: cheat-win on the fresh grid
C16_Witness ==
  /\ gameState.status = "won"
  /\ ~isDragging
  /\ events = 2
  /\ pendingGames = <<>>

====
